---- MODULE Spec2Model ----
(***************************************************************************)
(* Model of the data-access layer of inventory.py: class InventoryDBMySQL  *)
(* over the MySQL tables products and sales (InnoDB, REPEATABLE READ,      *)
(* autocommit off, which is what mysql.connector.connect gives by default).*)
(*                                                                         *)
(* Abstractions: prices are integers (price * qty is exact); names and     *)
(* categories are short strings; timestamps are left out.                  *)
(***************************************************************************)
EXTENDS Integers, Sequences, FiniteSets, TLC

\* ------------------------------------------------------------- bounds
NumConns == 2        \* connections (one InventoryDBMySQL object each)
MaxRows == 4         \* rows ever inserted, products and sales together

Conns == 1..NumConns
DB == 1              \* the module-level DB object of the single-threaded run
Pids == 1..MaxRows
Names == {"Widget"}
Categories == {"Tools"}
Prices == {2}
Stocks == {-1, 1}
Amounts == {-1, 0, 1}
Qtys == {-1, 0, 1, 2}
StockRange == -1..1  \* the guards keep every stock within this range
Faults == {"none", "insert", "update", "commit"}

VARIABLES products, sales, nextId, nextSaleId, tx, call, last

vars == <<products, sales, nextId, nextSaleId, tx, call, last>>

\* ------------------------------------------------------------- storage
\* A connection with no open transaction: no read view, no pending write,
\* no lock.
EmptyTx == [snap |-> <<>>, put |-> {}, del |-> {}, ins |-> {},
            slock |-> {}, xlock |-> {}]

\* The durable state of the server together with every connection's open
\* transaction.
World == [products |-> products, sales |-> sales, nextId |-> nextId,
          nextSaleId |-> nextSaleId, tx |-> tx]

Ids(tbl) == {r.id : r \in tbl}

\* A table with a transaction's own pending writes laid over it.
Overlay(tbl, t) ==
    {r \in tbl : r.id \notin t.del /\ r.id \notin Ids(t.put)} \cup t.put

\* What a plain SELECT of connection c reads: its read view (the committed
\* table as of the transaction's first read) under its own writes.
View(w, c) ==
    LET t == w.tx[c]
        base == IF Len(t.snap) = 0 THEN w.products ELSE t.snap[1]
    IN Overlay(base, t)

\* What a locking statement (UPDATE, DELETE, the foreign-key check of an
\* INSERT) of connection c reads: the latest committed rows under its own
\* writes.
Current(w, c) == Overlay(w.products, w.tx[c])

\* cur.execute("SELECT ..."): the first read of a transaction fixes its read
\* view.
ExecSelect(w, c) ==
    IF Len(w.tx[c].snap) = 0
    THEN [w EXCEPT !.tx[c].snap = <<w.products>>]
    ELSE w

\* Row locks: a shared lock waits for another transaction's exclusive lock,
\* an exclusive lock for any lock of another transaction.
CanS(w, c, pid) == \A d \in Conns \ {c} : pid \notin w.tx[d].xlock

CanX(w, c, pid) ==
    \A d \in Conns \ {c} : pid \notin w.tx[d].xlock /\ pid \notin w.tx[d].slock

\* ExecInsertProduct with the stock column left out of the INSERT, so that
\* the row takes the column's DEFAULT 0.
ExecInsertProductDefaultStock(w, c, name, category, price, stock) ==
    LET row == [id |-> w.nextId, name |-> name, category |-> category,
                price |-> price, stock |-> 0]
    IN [w |-> [w EXCEPT !.nextId = w.nextId + 1,
                        !.tx[c].put = @ \cup {row},
                        !.tx[c].xlock = @ \cup {row.id}],
        lastrowid |-> row.id]

\* INSERT INTO products: the row takes the next AUTO_INCREMENT value.
ExecInsertProduct(w, c, name, category, price, stock) ==
    LET row == [id |-> w.nextId, name |-> name, category |-> category,
                price |-> price, stock |-> stock]
    IN [w |-> [w EXCEPT !.nextId = w.nextId + 1,
                        !.tx[c].put = @ \cup {row},
                        !.tx[c].xlock = @ \cup {row.id}],
        lastrowid |-> row.id]

\* The value an UPDATE products SET stock = ... assigns.
NewStock(mode, old, v) == IF mode = "add" THEN old + v ELSE v

\* UPDATE products SET stock = <...> WHERE id = pid. rowcount is the number
\* of rows the statement changed (the connector's default client flags do not
\* include FOUND_ROWS), so a matched row left with the same stock counts 0.
ExecUpdateStock(w, c, pid, mode, v) ==
    LET hit == {r \in Current(w, c) : r.id = pid}
    IN IF hit = {}
       THEN [w |-> w, rowcount |-> 0]
       ELSE LET old == CHOOSE r \in hit : TRUE
                new == [old EXCEPT !.stock = NewStock(mode, old.stock, v)]
            IN [w |-> [w EXCEPT !.tx[c].put =
                                    {r \in @ : r.id # pid} \cup {new},
                                !.tx[c].xlock = @ \cup {pid}],
                rowcount |-> IF new = old THEN 0 ELSE 1]

\* CascadeSales with the ON DELETE CASCADE clause missing and the key not
\* enforced: the sales rows stay.
CascadeNone(tbl, del) == tbl

\* FOREIGN KEY (product_id) REFERENCES products(id) ON DELETE CASCADE: the
\* sales rows of the deleted products go with them.
CascadeSales(tbl, del) == {s \in tbl : s.product_id \notin del}

\* DELETE FROM products WHERE id = pid; ON DELETE CASCADE takes the sales
\* rows of the product with it.
ExecDeleteProduct(w, c, pid) ==
    LET hit == {r \in Current(w, c) : r.id = pid}
    IN IF hit = {}
       THEN [w |-> w, rowcount |-> 0]
       ELSE [w |-> [w EXCEPT !.tx[c].put = {r \in @ : r.id # pid},
                             !.tx[c].del = @ \cup {pid},
                             !.tx[c].ins = CascadeSales(@, {pid}),
                             !.tx[c].xlock = @ \cup {pid}],
             rowcount |-> 1]

\* INSERT INTO sales: the foreign key is checked against the latest parent
\* row, which is share-locked; the AUTO_INCREMENT value is consumed even if
\* the transaction is rolled back later.
ExecInsertSale(w, c, pid, qty, total_price) ==
    IF pid \notin Ids(Current(w, c))
    THEN [w |-> w, raised |-> TRUE,
          err |-> "1452 (23000): Cannot add or update a child row"]
    ELSE LET row == [sale_id |-> w.nextSaleId, product_id |-> pid,
                     quantity |-> qty, total_price |-> total_price]
         IN [w |-> [w EXCEPT !.nextSaleId = w.nextSaleId + 1,
                             !.tx[c].ins = @ \cup {row},
                             !.tx[c].slock = @ \cup {pid}],
             raised |-> FALSE, err |-> ""]

\* conn.commit(): the pending writes become durable, the locks and the read
\* view are released.
Commit(w, c) ==
    LET t == w.tx[c]
    IN [w EXCEPT !.products = Overlay(w.products, t),
                 !.sales = CascadeSales(w.sales, t.del) \cup t.ins,
                 !.tx[c] = EmptyTx]

\* Rollback left out of the except clause: the pending writes stay in the
\* connection's open transaction.
RollbackKeeps(w, c) == w

\* conn.rollback(): the pending writes are dropped, the locks and the read
\* view are released.
Rollback(w, c) == [w EXCEPT !.tx[c] = EmptyTx]

\* ------------------------------------------------------------- reads
\* get_product_by_id: <<>> stands for None.
get_product_by_id(w, c, pid) ==
    LET hit == {r \in View(w, c) : r.id = pid}
    IN IF hit = {} THEN <<>> ELSE <<CHOOSE r \in hit : TRUE>>

RECURSIVE SumValue(_)
SumValue(tbl) ==
    IF tbl = {} THEN 0
    ELSE LET r == CHOOSE x \in tbl : TRUE
         IN r.price * r.stock + SumValue(tbl \ {r})

\* get_total_inventory_value: SUM over no rows is NULL, which the handler
\* turns into 0.0 like a sum of 0.
get_total_inventory_value(w, c) ==
    LET r == IF View(w, c) = {} THEN <<>> ELSE <<SumValue(View(w, c))>>
    IN IF Len(r) > 0 /\ r[1] # 0 THEN r[1] ELSE 0

\* ------------------------------------------------------------- results
None == <<>>

\* What the last handler handed back, kept for the claims: the handler,
\* its success flag (add_product: True), the returned number (new id, total
\* price) or None, and the message ("" where the handler returns none).
Result(op, ok, val, msg) == [op |-> op, ok |-> ok, val |-> val, msg |-> msg]

NoResult == Result("init", TRUE, None, "")

Install(w) ==
    /\ products' = w.products
    /\ sales' = w.sales
    /\ nextId' = w.nextId
    /\ nextSaleId' = w.nextSaleId
    /\ tx' = w.tx

\* ------------------------------------------------------------- handlers
\* add_product: INSERT, commit, return cur.lastrowid. Nothing is validated.
add_product_call(w, c, name, category, price, stock) ==
    LET i == ExecInsertProduct(w, c, name, category, price, stock)
    IN [w |-> Commit(i.w, c), new_id |-> i.lastrowid]

\* update_stock: UPDATE ... stock = stock + add_qty, commit, rowcount > 0.
update_stock_call(w, c, pid, add_qty) ==
    LET u == ExecUpdateStock(w, c, pid, "add", add_qty)
    IN [w |-> Commit(u.w, c), ok |-> u.rowcount > 0]

\* set_stock: UPDATE ... stock = new_stock, commit, rowcount > 0.
set_stock_call(w, c, pid, new_stock) ==
    LET u == ExecUpdateStock(w, c, pid, "set", new_stock)
    IN [w |-> Commit(u.w, c), ok |-> u.rowcount > 0]

\* delete_product: DELETE, commit, rowcount > 0.
delete_product_call(w, c, pid) ==
    LET d == ExecDeleteProduct(w, c, pid)
    IN [w |-> Commit(d.w, c), ok |-> d.rowcount > 0]

\* NotEnough off by one: a sale of one more than the stock passes.
NotEnoughOffByOne(stock, qty) == stock < qty - 1

\* record_sale, line 141: the stock check.
NotEnough(stock, qty) == stock < qty

\* NotEnoughStockMsg without the number.
NotEnoughStockMsgBare(stock) == "Not enough stock"

\* record_sale, line 142: f"Not enough stock (available: {stock})".
NotEnoughStockMsg(stock) ==
    "Not enough stock (available: " \o ToString(stock) \o ")"

\* TotalPrice that forgets the quantity.
TotalPriceUnit(price, qty) == price

\* record_sale, line 144.
TotalPrice(price, qty) == price * qty

\* str(e) of the exception a failing statement raises; the connection
\* stays usable, so that the rollback of the except clause goes through.
FaultError(fault) ==
    CASE fault = "insert" -> "1205 (HY000): Lock wait timeout exceeded"
      [] fault = "update" -> "1264 (22003): Out of range value for column"
      [] fault = "commit" -> "1180 (HY000): Got error during COMMIT"
      [] OTHER -> ""

\* record_sale, lines 146-157: the write phase. fault names the statement
\* that raises: the INSERT (nothing written), the UPDATE (the sale row is
\* pending) or the commit (both writes are pending).
rs_write(w, c, pid, qty, total_price, fault) ==
    LET i == IF fault = "insert"
             THEN [w |-> w, raised |-> TRUE,
                   err |-> FaultError(fault)]
             ELSE ExecInsertSale(w, c, pid, qty, total_price)
    IN IF i.raised
       THEN [w |-> i.w, raised |-> TRUE, ok |-> FALSE, val |-> None,
             msg |-> i.err]
       ELSE IF fault = "update"
       THEN [w |-> i.w, raised |-> TRUE, ok |-> FALSE, val |-> None,
             msg |-> FaultError(fault)]
       ELSE LET u == ExecUpdateStock(i.w, c, pid, "add", -qty)
            IN IF fault = "commit"
               THEN [w |-> u.w, raised |-> TRUE, ok |-> FALSE, val |-> None,
                     msg |-> FaultError(fault)]
               ELSE [w |-> Commit(u.w, c), raised |-> FALSE, ok |-> TRUE,
                     val |-> <<total_price>>, msg |-> "Sale recorded"]

\* record_sale, lines 159-161: except Exception: rollback, (False, None,
\* str(e)).
rs_except(t, c) ==
    [w |-> Rollback(t.w, c), raised |-> FALSE, ok |-> FALSE, val |-> None,
     msg |-> t.msg]

\* record_sale as one call. The early returns neither commit nor roll back.
record_sale_call(w, c, pid, qty, fault) ==
    LET w1 == ExecSelect(w, c)
        row == get_product_by_id(w1, c, pid)
    IN IF Len(row) = 0
       THEN [w |-> w1, raised |-> FALSE, ok |-> FALSE, val |-> None,
             msg |-> "Product not found", fault |-> "none"]
       ELSE LET price == row[1].price
                stock == row[1].stock
            IN IF NotEnough(stock, qty)
               THEN [w |-> w1, raised |-> FALSE, ok |-> FALSE, val |-> None,
                     msg |-> NotEnoughStockMsg(stock), fault |-> "none"]
               ELSE LET t == rs_write(w1, c, pid, qty,
                                      TotalPrice(price, qty), fault)
                        r == IF t.raised THEN rs_except(t, c) ELSE t
                    IN [w |-> r.w, raised |-> FALSE, ok |-> r.ok,
                        val |-> r.val, msg |-> r.msg, fault |-> fault]

\* ------------------------------------------------------------- the
\* single-threaded run: every handler is called on DB and runs to its end.
StockOf(tbl, pid) == (CHOOSE r \in tbl : r.id = pid).stock

InRange(n) == n \in StockRange

\* The AUTO_INCREMENT values handed out so far, in both tables.
RowsUsed == (nextId - 1) + (nextSaleId - 1)

add_product(name, category, price, stock) ==
    /\ RowsUsed < MaxRows
    /\ LET r == add_product_call(World, DB, name, category, price, stock)
       IN /\ Install(r.w)
          /\ last' = Result("add_product", TRUE, <<r.new_id>>, "")
    /\ UNCHANGED call

update_stock(pid, add_qty) ==
    /\ pid \in Ids(products) => InRange(StockOf(products, pid) + add_qty)
    /\ LET r == update_stock_call(World, DB, pid, add_qty)
       IN /\ Install(r.w)
          /\ last' = Result("update_stock", r.ok, None, "")
    /\ UNCHANGED call

set_stock(pid, new_stock) ==
    /\ LET r == set_stock_call(World, DB, pid, new_stock)
       IN /\ Install(r.w)
          /\ last' = Result("set_stock", r.ok, None, "")
    /\ UNCHANGED call

delete_product(pid) ==
    /\ LET r == delete_product_call(World, DB, pid)
       IN /\ Install(r.w)
          /\ last' = Result("delete_product", r.ok, None, "")
    /\ UNCHANGED call

\* A storage failure is drawn only for a call that gets to its write phase.
record_sale(pid, qty, fault) ==
    /\ RowsUsed < MaxRows
    /\ pid \in Ids(products) => InRange(StockOf(products, pid) - qty)
    /\ fault # "none" =>
          /\ pid \in Ids(products)
          /\ ~NotEnough(StockOf(products, pid), qty)
    /\ LET r == record_sale_call(World, DB, pid, qty, fault)
       IN /\ last' = Result("record_sale", r.ok, r.val, r.msg)
          /\ Install(r.w)
    /\ UNCHANGED call

Idle == [pc |-> "idle", pid |-> 0, qty |-> 0, price |-> 0, stock |-> 0,
         total_price |-> 0]

Init ==
    /\ products = {}
    /\ sales = {}
    /\ nextId = 1
    /\ nextSaleId = 1
    /\ tx = [c \in Conns |-> EmptyTx]
    /\ call = [c \in Conns |-> Idle]
    /\ last = NoResult

Next ==
    \/ \E n \in Names, g \in Categories, p \in Prices, s \in Stocks :
          add_product(n, g, p, s)
    \/ \E pid \in Pids, a \in Amounts : update_stock(pid, a)
    \/ \E pid \in Pids, s \in Stocks : set_stock(pid, s)
    \/ \E pid \in Pids : delete_product(pid)
    \/ \E pid \in Pids, q \in Qtys, f \in Faults : record_sale(pid, q, f)

Spec == Init /\ [][Next]_vars

\* ------------------------------------------------------------- adds and
\* deletes alone, with the whole range of Product fields.
AnyNames == {"", "Widget"}
AnyCategories == {"Tools"}
AnyPrices == {-1, 2}
AnyStocks == {-1, 2}

NextCatalog ==
    \/ \E n \in AnyNames, g \in AnyCategories, p \in AnyPrices,
          s \in AnyStocks : add_product(n, g, p, s)
    \/ \E pid \in Pids : delete_product(pid)

SpecCatalog == Init /\ [][NextCatalog]_vars

\* ------------------------------------------------------------- record_sale
\* on several connections at once: each statement of the handler is a step.
ConcStocks == {1, 2}
ConcQtys == {1, 2}

\* Lines 131-144: SELECT, the two early returns, total_price.
rs_begin(c, pid, qty) ==
    /\ call[c].pc = "idle"
    /\ RowsUsed < MaxRows
    /\ LET w1 == ExecSelect(World, c)
           row == get_product_by_id(w1, c, pid)
       IN /\ Install(w1)
          /\ IF Len(row) = 0
             THEN /\ last' = Result("record_sale", FALSE, None,
                                    "Product not found")
                  /\ UNCHANGED call
             ELSE IF NotEnough(row[1].stock, qty)
             THEN /\ last' = Result("record_sale", FALSE, None,
                                    NotEnoughStockMsg(row[1].stock))
                  /\ UNCHANGED call
             ELSE /\ call' = [call EXCEPT ![c] =
                        [pc |-> "insert", pid |-> pid, qty |-> qty,
                         price |-> row[1].price, stock |-> row[1].stock,
                         total_price |-> TotalPrice(row[1].price, qty)]]
                  /\ UNCHANGED last

\* Lines 146-149: the INSERT waits for the shared lock on the parent row.
rs_insert(c) ==
    /\ call[c].pc = "insert"
    /\ CanS(World, c, call[c].pid)
    /\ LET i == ExecInsertSale(World, c, call[c].pid, call[c].qty,
                               call[c].total_price)
       IN IF i.raised
          THEN /\ Install(rs_except([w |-> i.w, msg |-> i.err], c).w)
               /\ call' = [call EXCEPT ![c] = Idle]
               /\ last' = Result("record_sale", FALSE, None, i.err)
          ELSE /\ Install(i.w)
               /\ call' = [call EXCEPT ![c].pc = "update"]
               /\ UNCHANGED last

\* Lines 151-154: the UPDATE waits for the exclusive lock on the row.
rs_update(c) ==
    /\ call[c].pc = "update"
    /\ CanX(World, c, call[c].pid)
    /\ Install(ExecUpdateStock(World, c, call[c].pid, "add",
                               -call[c].qty).w)
    /\ call' = [call EXCEPT ![c].pc = "commit"]
    /\ UNCHANGED last

\* Lines 156-157.
rs_commit(c) ==
    /\ call[c].pc = "commit"
    /\ Install(Commit(World, c))
    /\ call' = [call EXCEPT ![c] = Idle]
    /\ last' = Result("record_sale", TRUE, <<call[c].total_price>>,
                      "Sale recorded")

DeadlockError == "1213 (40001): Deadlock found when trying to get lock"

\* Two transactions that each wait at the UPDATE for the other's shared
\* lock: the server picks one as the victim, whose UPDATE raises; lines
\* 159-161 roll back and return the error.
rs_deadlock(c) ==
    /\ call[c].pc = "update"
    /\ \E d \in Conns \ {c} :
          /\ call[d].pc = "update"
          /\ call[c].pid \in tx[d].slock
          /\ call[d].pid \in tx[c].slock
    /\ Install(rs_except([w |-> World, msg |-> DeadlockError], c).w)
    /\ call' = [call EXCEPT ![c] = Idle]
    /\ last' = Result("record_sale", FALSE, None, DeadlockError)

InitConc ==
    /\ products \in {{[id |-> 1, name |-> "Widget", category |-> "Tools",
                       price |-> 2, stock |-> s]} : s \in ConcStocks}
    /\ sales = {}
    /\ nextId = 2
    /\ nextSaleId = 1
    /\ tx = [c \in Conns |-> EmptyTx]
    /\ call = [c \in Conns |-> Idle]
    /\ last = NoResult

NextConc ==
    \/ \E c \in Conns, pid \in Pids, q \in ConcQtys : rs_begin(c, pid, q)
    \/ \E c \in Conns : rs_insert(c)
    \/ \E c \in Conns : rs_update(c)
    \/ \E c \in Conns : rs_commit(c)
    \/ \E c \in Conns : rs_deadlock(c)

SpecConc == InitConc /\ [][NextConc]_vars

\* ------------------------------------------------------------- claims
StockAfter(pid) == StockOf(products, pid)'

GetAfter(pid) == get_product_by_id(World, DB, pid)'

ValueAfter == get_total_inventory_value(World, DB)'

\* C1: with record_sale running on two connections at once, their
\* statements interleaved, no product's stock is ever negative (the stock
\* starts at 0 or more and every quantity asked for is 1 or more).
C1_ConcurrentSalesKeepStockNonNegative == \A r \in products : r.stock >= 0

\* In the formulas below a step of a handler is named by the handler's
\* action; "Pre => (last'.op # "handler" \/ Post \/ ~handler(...))" reads
\* "a handler step from a state with Pre ends with Post" (every handler
\* leaves its name in last.op).

\* C2: in the single-threaded run record_sale never makes a stock negative:
\* a product whose stock is >= 0 before record_sale(pid, qty) still exists
\* with stock >= 0 after it, for every qty and every storage failure.
C2_SaleKeepsStockNonNegative ==
    [][\A r \in products :
          r.stock >= 0 =>
             \/ last'.op # "record_sale"
             \/ r.id \in Ids(products') /\ StockAfter(r.id) >= 0
             \/ ~\E pid \in Pids, q \in Qtys, f \in Faults :
                    record_sale(pid, q, f)]_vars

\* C2 witness: a sale of the whole remaining stock has succeeded.
C2_Witness ==
    /\ last.op = "record_sale"
    /\ last.ok
    /\ \E r \in products, s \in sales :
          r.stock = 0 /\ s.product_id = r.id /\ s.quantity = 1

\* The stock of product pid lowered by qty, everything else as it was.
Decremented(tbl, pid, qty) ==
    {IF r.id = pid THEN [r EXCEPT !.stock = r.stock - qty] ELSE r : r \in tbl}

C4_NotEnoughStock ==
    [][\A pid \in Pids, q \in Qtys, f \in Faults :
          (pid \in Ids(products) /\ q > StockOf(products, pid)) =>
             \/ last'.op # "record_sale"
             \/ /\ ~last'.ok
                /\ last'.val = None
                /\ last'.msg = "Not enough stock (available: "
                                  \o ToString(StockOf(products, pid)) \o ")"
                /\ products' = products
                /\ sales' = sales
             \/ ~record_sale(pid, q, f)]_vars

\* C4 witness: a sale was refused with one unit available.
C4_Witness ==
    /\ last.op = "record_sale"
    /\ ~last.ok
    /\ last.msg = "Not enough stock (available: 1)"
    /\ \E r \in products : r.stock = 1

\* C5: without a storage failure, record_sale(pid, qty) on an existing
\* product with qty <= its stock returns (True, price * qty, ...), lowers
\* that stock by exactly qty, adds exactly one sale row (a fresh sale_id,
\* product_id = pid, quantity = qty, total_price = price * qty), lowers the
\* total inventory value by price * qty and leaves every other product and
\* every earlier sale row as it was.
C5_SaleRecorded ==
    [][\A pid \in Pids, q \in Qtys :
          (pid \in Ids(products) /\ q <= StockOf(products, pid)) =>
             LET row == CHOOSE r \in products : r.id = pid
             IN \/ last'.op # "record_sale"
                \/ /\ last'.ok
                   /\ last'.val = <<row.price * q>>
                   /\ products' = Decremented(products, pid, q)
                   /\ \E s \in sales' :
                         /\ s.sale_id \notin {x.sale_id : x \in sales}
                         /\ sales' = sales \cup {s}
                         /\ Cardinality(sales') = Cardinality(sales) + 1
                         /\ s.product_id = pid
                         /\ s.quantity = q
                         /\ s.total_price = row.price * q
                   /\ ValueAfter = get_total_inventory_value(World, DB)
                                      - row.price * q
                \/ ~record_sale(pid, q, "none")]_vars

\* C5 witness: a sale has succeeded with an earlier sale row and a second
\* product in the tables.
C5_Witness ==
    /\ last.op = "record_sale"
    /\ last.ok
    /\ last.val = <<2>>
    /\ Cardinality(sales) = 2
    /\ Cardinality(products) = 2

\* C6: delete_product(pid) on an existing product returns True, removes that
\* product and every sale row of it and nothing else, and get_product_by_id
\* (pid) then returns None; and in every state every sale row refers to a
\* product that exists.
C6_DeleteCascades ==
    [][/\ \A pid \in Pids :
            pid \in Ids(products) =>
               \/ last'.op # "delete_product"
               \/ /\ last'.ok
                  /\ products' = {r \in products : r.id # pid}
                  /\ sales' = {s \in sales : s.product_id # pid}
                  /\ GetAfter(pid) = None
               \/ ~delete_product(pid)
       /\ \A s \in sales' : s.product_id \in Ids(products')]_vars

\* C6 witness: a product was deleted while a sale row of another product
\* stays.
C6_Witness ==
    /\ last.op = "delete_product"
    /\ last.ok
    /\ Cardinality(products) = 1
    /\ Cardinality(sales) = 1
    /\ nextSaleId = 3

\* C7: every product has stock >= 0 and price >= 0 in every state the
\* handlers can reach.
C7_StockAndPriceNonNegative ==
    \A r \in products : r.stock >= 0 /\ r.price >= 0

\* C8: every sale row has a quantity >= 1.
C8_SaleQuantityPositive == \A s \in sales : s.quantity >= 1

\* C9: update_stock(id, amount) returns False and changes nothing when no
\* product has that id, and otherwise adds amount to that stock, changes
\* nothing else and returns True, for every amount; set_stock(id, value) on
\* an existing product sets the stock and returns True, for every value.
C9_StockUpdatesReportSuccess ==
    [][/\ \A pid \in Pids, a \in Amounts :
            \/ last'.op # "update_stock"
            \/ IF pid \in Ids(products)
               THEN /\ last'.ok
                    /\ products' = Decremented(products, pid, -a)
                    /\ sales' = sales
               ELSE /\ ~last'.ok
                    /\ products' = products
                    /\ sales' = sales
            \/ ~update_stock(pid, a)
       /\ \A pid \in Pids, v \in Stocks :
            pid \in Ids(products) =>
               \/ last'.op # "set_stock"
               \/ last'.ok /\ StockAfter(pid) = v
               \/ ~set_stock(pid, v)]_vars

UniqueIds(tbl) == \A r1, r2 \in tbl : r1.id = r2.id => r1 = r2

\* C10: add_product returns an identifier that no stored product has, and
\* get_product_by_id on it returns the name, category, price and stock that
\* were given; the products stored before stay as they were; after any
\* sequence of adds and deletes no two stored products share an identifier,
\* and a product that stays stored keeps its identifier with its fields.
C10_AddAssignsFreshId ==
    [][/\ \A n \in AnyNames, g \in AnyCategories, p \in AnyPrices,
             s \in AnyStocks :
            \/ last'.op # "add_product"
            \/ \E id \in Pids :
                  /\ last'.val = <<id>>
                  /\ id \notin Ids(products)
                  /\ GetAfter(id) = <<[id |-> id, name |-> n,
                                       category |-> g, price |-> p,
                                       stock |-> s]>>
                  /\ products \subseteq products'
            \/ ~add_product(n, g, p, s)
       /\ UniqueIds(products')
       /\ \A r \in products' : r.id \in Ids(products) => r \in products
      ]_vars

\* C10 witness: an add after a delete returned a new identifier, 2, while
\* identifier 1 is no longer stored.
C10_Witness ==
    /\ last.op = "add_product"
    /\ last.val = <<2>>
    /\ Ids(products) = {2}
    /\ \E r \in products : r.name = "" /\ r.price = -1 /\ r.stock = -1

====
